---- MODULE Spec2Model ----
(***************************************************************************)
(* Location-aware retrieval of the Fukui tourism assistant:                *)
(* ChromaDBManager.calculate_distance, extract_location_from_query,        *)
(* search_similar_with_location and search_similar                         *)
(* (src/src/Vector_Database/ChromaDB_v1.py), the /chat handler, and the    *)
(* start of the API service with the database of its manager               *)
(* (src/backend/app.py).                                                   *)
(*                                                                         *)
(* Spec has the direct calls of search_similar_with_location and of        *)
(* extract_location_from_query, SpecChat the searches /chat makes,         *)
(* SpecRequest the calls that ask for up to MaxRequest results,            *)
(* SpecDataset the resolver over every dataset of up to MaxRecords         *)
(* records, SpecDistance calculate_distance over pairs of coordinates of   *)
(* the whole domain, SpecConcurrent two calls that run at the same time    *)
(* on one manager, and SpecService the process from its start to its end,  *)
(* with the requests it answers in between.                                *)
(*                                                                         *)
(* Numbers.  Python floats are modelled in fixed point:                    *)
(*   - a latitude or longitude is an integer number of 1/10000 degree;     *)
(*   - an angle in radians and a sine or cosine carry six decimals         *)
(*     (FScale);                                                           *)
(*   - a distance in kilometres and a location score carry three decimals  *)
(*     (Unit), so 20.0 km is 20000 and the score 2.0 is 2000.              *)
(* Every intermediate value stays below 2^31.                              *)
(***************************************************************************)
EXTENDS Integers, Sequences, FiniteSets, Bags, TLC

\* ------------------------------------------------------------------------
\* Fixed-point arithmetic
\* ------------------------------------------------------------------------

\* Six decimals: the unit of angles (microradians) and of sines.
FScale == 1000000

\* Three decimals: the unit of kilometres (metres) and of scores.
Unit == 1000

Abs(x) == IF x < 0 THEN -x ELSE x

Max(x, y) == IF x >= y THEN x ELSE y

Min(x, y) == IF x <= y THEN x ELSE y

\* x * y / FScale for x, y >= 0, in pieces that stay below 2^31.
MulPos(x, y) ==
    LET xh == x \div 1000
        xl == x % 1000
        yh == y \div 1000
        yl == y % 1000
    IN  xh * yh + (xh * yl + xl * yh) \div 1000 + (xl * yl) \div FScale

\* x * y / FScale, signed.
Mul(x, y) ==
    LET p == MulPos(Abs(x), Abs(y))
    IN  IF (x < 0) = (y < 0) THEN p ELSE -p

\* pi and pi/2 in microradians.
Pi == 3141593

HalfPi == 1570796

\* math.radians: 1/10000 degree to microradians (pi/180 = 0.01745329...).
Radians(deg4) == Mul(deg4 * 10, 174533)

\* x / 2, rounded toward zero as float arithmetic is sign-symmetric.
Half(x) == IF x < 0 THEN -((-x) \div 2) ELSE x \div 2

\* The sine series x - x^3/3! + x^5/5! - ... for 0 <= x <= pi/2.
SinSeries(x) ==
    LET x2 == Mul(x, x)
        t3 == Mul(x, x2) \div 6
        t5 == Mul(t3, x2) \div 20
        t7 == Mul(t5, x2) \div 42
        t9 == Mul(t7, x2) \div 72
        t11 == Mul(t9, x2) \div 110
    IN  x - t3 + t5 - t7 + t9 - t11

\* math.sin for -pi <= x <= pi.
Sin(x) ==
    LET ax == Abs(x)
        r == IF ax > HalfPi THEN Pi - ax ELSE ax
        s == Min(FScale, Max(0, SinSeries(r)))
    IN  IF x < 0 THEN -s ELSE s

\* math.cos for -pi/2 <= x <= pi/2.
Cos(x) == Sin(HalfPi - Abs(x))

\* The largest r in lo..hi with r * r <= q.
RECURSIVE SqrtSearch(_, _, _)
SqrtSearch(q, lo, hi) ==
    IF lo >= hi THEN lo
    ELSE LET mid == (lo + hi + 1) \div 2
         IN  IF mid * mid <= q THEN SqrtSearch(q, mid, hi)
             ELSE SqrtSearch(q, lo, mid - 1)

\* The integer square root of 0 <= q < 2^31.
ISqrt(q) == SqrtSearch(q, 0, 46340)

\* The largest angle in lo..hi whose sine is at most h.
RECURSIVE AsinSearch(_, _, _)
AsinSearch(h, lo, hi) ==
    IF lo >= hi THEN lo
    ELSE LET mid == (lo + hi + 1) \div 2
         IN  IF Sin(mid) <= h THEN AsinSearch(h, mid, hi)
             ELSE AsinSearch(h, lo, mid - 1)

\* math.asin for 0 <= h <= 1 (h in millionths), in microradians.
Asin(h) == IF h >= FScale THEN HalfPi ELSE AsinSearch(h, 0, HalfPi)

\* sqrt(s1^2 + k * s2^2) for sines s1, s2 and a factor k, all in millionths.
\* Small sines are squared as they are and large ones after a division by 32,
\* which keeps the relative precision a float has at both ends.
HavRoot(s1, s2, k) ==
    LET f == IF Max(s1, s2) <= 32000 THEN 1 ELSE 32
        u1 == s1 \div f
        u2 == s2 \div f
    IN  f * ISqrt(u1 * u1 + MulPos(u2 * u2, k))

\* Earth's radius in kilometres.
earth_radius == 6371

\* A formula that takes the cosine of the first latitude for both points.
HaversineOfFirstLatitude(lat1, lng1, lat2, lng2) ==
    LET lat1_rad == Radians(lat1)
        dlat == Radians(lat2) - lat1_rad
        dlng == Radians(lng2) - Radians(lng1)
        s1 == Abs(Sin(Half(dlat)))
        s2 == Abs(Sin(Half(dlng)))
        k == MulPos(Cos(lat1_rad), Cos(lat1_rad))
        c == 2 * Asin(HavRoot(s1, s2, k))
    IN  Mul(c, earth_radius * Unit)

\* A formula without the cosines of the latitudes.
HaversineWithoutCosines(lat1, lng1, lat2, lng2) ==
    LET dlat == Radians(lat2) - Radians(lat1)
        dlng == Radians(lng2) - Radians(lng1)
        s1 == Abs(Sin(Half(dlat)))
        s2 == Abs(Sin(Half(dlng)))
        c == 2 * Asin(HavRoot(s1, s2, FScale))
    IN  Mul(c, earth_radius * Unit)

\* ChromaDBManager.calculate_distance: the Haversine distance, in metres.
calculate_distance(lat1, lng1, lat2, lng2) ==
    LET lat1_rad == Radians(lat1)
        lng1_rad == Radians(lng1)
        lat2_rad == Radians(lat2)
        lng2_rad == Radians(lng2)
        dlat == lat2_rad - lat1_rad
        dlng == lng2_rad - lng1_rad
        s1 == Abs(Sin(Half(dlat)))
        s2 == Abs(Sin(Half(dlng)))
        k == MulPos(Cos(lat1_rad), Cos(lat2_rad))
        c == 2 * Asin(HavRoot(s1, s2, k))
    IN  Mul(c, earth_radius * Unit)

\* The coordinates of Fukui, Ono and Sakai (src/demo_location_aware.py, 79-81),
\* in 1/10000 degree.
FukuiLat == 360642

FukuiLng == 1362206

OnoLat == 359789

OnoLng == 1364858

SakaiLat == 361831

SakaiLng == 1362242

\* The coordinates that occur in the model's documents and dataset.
KnownCoordinates == {<<FukuiLat, FukuiLng>>, <<OnoLat, OnoLng>>, <<SakaiLat, SakaiLng>>}

\* calculate_distance of every pair of known coordinates, computed once.
KnownDistances ==
    [a \in KnownCoordinates, b \in KnownCoordinates |-> calculate_distance(a[1], a[2], b[1], b[2])]

\* calculate_distance, looked up when the pair is a known one.
Distance(lat1, lng1, lat2, lng2) ==
    IF <<lat1, lng1>> \in KnownCoordinates /\ <<lat2, lng2>> \in KnownCoordinates
    THEN KnownDistances[<<lat1, lng1>>, <<lat2, lng2>>]
    ELSE calculate_distance(lat1, lng1, lat2, lng2)

\* ------------------------------------------------------------------------
\* Values read from JSON and from document metadata
\* ------------------------------------------------------------------------

\* A text is a sequence of characters; the empty text is <<>>.
\* A value is absent (None, or a key that is not there), a number, or a
\* string that either spells a number or does not.
Absent == [kind |-> "absent"]

Num(v) == [kind |-> "num", v |-> v]

NumStr(v) == [kind |-> "str", numeric |-> TRUE, v |-> v]

BadStr == [kind |-> "str", numeric |-> FALSE, v |-> 0]

\* float(x): the number, or the exception float raises.
\* float(None) is a TypeError and float("abc") a ValueError.
Float(x) ==
    CASE x.kind = "num" -> [ok |-> TRUE, v |-> x.v, exc |-> "none"]
      [] x.kind = "str" /\ x.numeric -> [ok |-> TRUE, v |-> x.v, exc |-> "none"]
      [] x.kind = "str" /\ ~x.numeric -> [ok |-> FALSE, v |-> 0, exc |-> "ValueError"]
      [] OTHER -> [ok |-> FALSE, v |-> 0, exc |-> "TypeError"]

\* Python's `sub in text` for strings: sub occurs in text as a substring.
IsSubstring(sub, text) ==
    \E i \in 0..(Len(text) - Len(sub)) :
        \A j \in 1..Len(sub) : text[i + j] = sub[j]

\* ------------------------------------------------------------------------
\* The location dataset and the gazetteer built from it
\* ------------------------------------------------------------------------

\* output/fukui_enhanced_locations.json is missing, is not valid JSON, or
\* holds a list of records.  A record has original_data.city,
\* original_data.latitude and longitude, and google_maps_data.geometry, which
\* is absent or holds a location whose lat and lng are values; a location
\* without the key lat or lng has has_keys FALSE.
NoGeometry == [kind |-> "absent"]

Geometry(lat, lng) == [kind |-> "location", has_keys |-> TRUE, lat |-> lat, lng |-> lng]

GeometryWithoutKeys == [kind |-> "location", has_keys |-> FALSE, lat |-> Absent, lng |-> Absent]

LocationRecord(city, geometry, lat, lng) ==
    [city |-> city, geometry |-> geometry, latitude |-> lat, longitude |-> lng]

\* A test that lets every city name pass, the empty one too.
AnyCity(city) == TRUE

\* Line 185: `if city`, true of a text that is not empty.
NamesACity(city) == city # <<>>

\* A test that finds no name in the gazetteer.
HasCityNever(city_coords, city) == FALSE

\* Whether city_coords, a sequence of entries in insertion order, has the key.
HasCity(city_coords, city) == \E i \in 1..Len(city_coords) : city_coords[i].city = city

\* A reading that finds no Google Maps coordinate in any record.
GoogleCoordinateIgnored(location) == [exc |-> "none", found |-> FALSE, lat |-> 0, lng |-> 0]

\* Lines 186-195: the Google Maps coordinate of one record.  KeyError is not
\* among the exceptions the inner try catches.
GoogleCoordinate(location) ==
    LET g == location.geometry
    IN  IF g.kind = "location"
        THEN IF ~g.has_keys THEN [exc |-> "KeyError", found |-> FALSE, lat |-> 0, lng |-> 0]
             ELSE LET lat == Float(g.lat)
                      lng == Float(g.lng)
                  IN  IF lat.ok /\ lng.ok
                      THEN [exc |-> "none", found |-> TRUE, lat |-> lat.v, lng |-> lng.v]
                      ELSE [exc |-> "none", found |-> FALSE, lat |-> 0, lng |-> 0]
        ELSE [exc |-> "none", found |-> FALSE, lat |-> 0, lng |-> 0]

\* Lines 198-206: the original coordinate of one record.
OriginalCoordinate(location) ==
    LET lat == location.latitude
        lng == location.longitude
    IN  IF lat.kind # "absent" /\ lng.kind # "absent" /\ Float(lat).ok /\ Float(lng).ok
        THEN [found |-> TRUE, lat |-> Float(lat).v, lng |-> Float(lng).v]
        ELSE [found |-> FALSE, lat |-> 0, lng |-> 0]

\* Lines 193 and 203: city_coords[city] = (lat, lng).  A dict keeps the place
\* of a key it already has and puts a new key last.
SetEntry(city_coords, city, lat, lng) ==
    IF \E i \in 1..Len(city_coords) : city_coords[i].city = city
    THEN [i \in 1..Len(city_coords) |->
            IF city_coords[i].city = city THEN [city |-> city, lat |-> lat, lng |-> lng]
            ELSE city_coords[i]]
    ELSE Append(city_coords, [city |-> city, lat |-> lat, lng |-> lng])

RECURSIVE BuildCityCoords(_, _, _)

\* Lines 186-206: the entry a record of a new city adds, from its Google
\* coordinate g and its original coordinate o.
AddCity(locations_data, i, city_coords, city, g, o) ==
    IF g.exc # "none" THEN [exc |-> g.exc, city_coords |-> city_coords]
    ELSE IF g.found
    THEN BuildCityCoords(locations_data, i + 1, SetEntry(city_coords, city, g.lat, g.lng))
    ELSE IF o.found
    THEN BuildCityCoords(locations_data, i + 1, SetEntry(city_coords, city, o.lat, o.lng))
    ELSE BuildCityCoords(locations_data, i + 1, city_coords)

\* Lines 182-206: the loop that builds city_coords, from record i on.
BuildCityCoords(locations_data, i, city_coords) ==
    IF i > Len(locations_data) THEN [exc |-> "none", city_coords |-> city_coords]
    ELSE IF NamesACity(locations_data[i].city) /\ ~HasCity(city_coords, locations_data[i].city)
         THEN AddCity(locations_data, i, city_coords, locations_data[i].city,
                      GoogleCoordinate(locations_data[i]), OriginalCoordinate(locations_data[i]))
         ELSE BuildCityCoords(locations_data, i + 1, city_coords)

NoLocation == [kind |-> "none"]

Place(city, lat, lng) == [kind |-> "place", city |-> city, lat |-> lat, lng |-> lng]

\* A lookup that prefers the longest name of the gazetteer that the query holds.
LongestCityInQuery(city_coords, i, q) ==
    LET held == { k \in i..Len(city_coords) : IsSubstring(city_coords[k].city, q) }
    IN  IF held = {} THEN NoLocation
        ELSE LET k == CHOOSE k \in held :
                          \A j \in held :
                              \/ Len(city_coords[j].city) < Len(city_coords[k].city)
                              \/ Len(city_coords[j].city) = Len(city_coords[k].city) /\ k <= j
             IN  Place(city_coords[k].city, city_coords[k].lat, city_coords[k].lng)

\* Lines 209-211: the first entry of city_coords whose name is in the query.
RECURSIVE FirstCityInQuery(_, _, _)
FirstCityInQuery(city_coords, i, q) ==
    IF i > Len(city_coords) THEN NoLocation
    ELSE IF IsSubstring(city_coords[i].city, q)
         THEN Place(city_coords[i].city, city_coords[i].lat, city_coords[i].lng)
         ELSE FirstCityInQuery(city_coords, i + 1, q)

\* Lines 208-216: the lookup in the gazetteer as built, or None when
\* building it raised (line 213 catches every exception).
LookupBuilt(built, q) ==
    IF built.exc # "none" THEN NoLocation
    ELSE FirstCityInQuery(built.city_coords, 1, q)

\* ChromaDBManager.extract_location_from_query on the dataset file as it is.
extract_location_from_query(file, q) ==
    IF file.kind # "list" THEN NoLocation
    ELSE LookupBuilt(BuildCityCoords(file.records, 1, <<>>), q)

\* ------------------------------------------------------------------------
\* Candidates and their location score
\* ------------------------------------------------------------------------

\* The metadata the collection returns for a document: None, or a mapping
\* whose city is a text (<<>> when the key is missing) and whose latitude and
\* longitude are values.
NoMetadata == [kind |-> "none"]

Metadata(city, lat, lng) ==
    [kind |-> "dict", city |-> city, latitude |-> lat, longitude |-> lng]

\* One hit of collection.query: documents[0][i], metadatas[0][i], distances[0][i].
Candidate(content, metadata, distance) ==
    [content |-> content, metadata |-> metadata, distance |-> distance]

\* The exceptions the model raises, all subclasses of Exception.
ExceptionNames ==
    {"ValueError", "TypeError", "AttributeError", "ZeroDivisionError", "KeyError", "QueryError",
     "OSError"}

\* A handler that catches what the handlers of lines 194 and 205 catch.
ResolverCatchesValueErrors(exc) == exc \in {"ValueError", "TypeError"}

\* Line 213: except Exception, around the whole of extract_location_from_query.
ResolverCatches(exc) == exc \in ExceptionNames

\* Lines 168-211: what the try block of extract_location_from_query raises.
\* A missing file raises nothing (lines 175-176 return None), an unreadable one
\* fails in open (line 178), a malformed one in json.load (line 179), and a
\* list of records in the loop that builds the gazetteer.
ExtractionException(file) ==
    IF file.kind = "missing" THEN "none"
    ELSE IF file.kind = "unreadable" THEN "OSError"
    ELSE IF file.kind = "malformed" THEN "ValueError"
    ELSE BuildCityCoords(file.records, 1, <<>>).exc

\* The exception that leaves extract_location_from_query, past line 213.
ExtractionEscapes(file) ==
    IF ExtractionException(file) = "none" \/ ResolverCatches(ExtractionException(file))
    THEN "none"
    ELSE ExtractionException(file)

\* The most builds of the gazetteer that are counted.
MaxBuilds == 2

\* A resolver that keeps the gazetteer of its first call.
BuildsAfterCaching(file, builds) ==
    IF file.kind = "list" /\ builds = 0 THEN 1 ELSE builds

\* Lines 178-206: every call that gets a list of records from the file fills
\* a new city_coords, a local of the call.
BuildsAfter(file, builds) ==
    IF file.kind = "list" THEN Min(builds + 1, MaxBuilds) ELSE builds

\* Line 280: except (ValueError, TypeError).
ScoringCatches(exc) == exc \in {"ValueError", "TypeError"}

\* Line 292: except Exception.
LocationSearchCatches(exc) == exc \in ExceptionNames

\* A handler that catches what the scoring handler of line 280 catches.
SearchSimilarCatchesValueErrors(exc) == exc \in {"ValueError", "TypeError"}

\* Line 536: except Exception.
SearchSimilarCatches(exc) == exc \in ExceptionNames

\* A proximity score that is the distance left to the threshold, not its share
\* of the threshold.
DistanceScoreUnscaled(distance, distance_threshold_km) ==
    IF distance_threshold_km = 0 THEN [exc |-> "ZeroDivisionError", score |-> 0]
    ELSE [exc |-> "none", score |-> Max(0, distance_threshold_km - distance)]

\* Line 278: max(0, (distance_threshold_km - distance) / distance_threshold_km).
\* Dividing by a threshold of 0 raises ZeroDivisionError.
DistanceScore(distance, distance_threshold_km) ==
    IF distance_threshold_km = 0 THEN [exc |-> "ZeroDivisionError", score |-> 0]
    ELSE [exc |-> "none",
          score |-> Max(0, ((distance_threshold_km - distance) * Unit) \div distance_threshold_km)]

\* Lines 277-278: the score of a candidate at `distance` from the reference.
\* ZeroDivisionError is not among the exceptions the inner try catches.
ThresholdScore(distance, distance_threshold_km) ==
    IF distance <= distance_threshold_km
    THEN IF ScoringCatches(DistanceScore(distance, distance_threshold_km).exc)
         THEN [exc |-> "none", score |-> 0]
         ELSE DistanceScore(distance, distance_threshold_km)
    ELSE [exc |-> "none", score |-> 0]

\* Lines 263-281: the score of a candidate of another city, from its
\* coordinates; an exception the inner try catches leaves the score 0.
ProximityScore(result_metadata, query_location, distance_threshold_km) ==
    LET result_lat == result_metadata.latitude
        result_lng == result_metadata.longitude
        zero == [exc |-> "none", score |-> 0]
    IN  IF result_lat.kind # "absent" /\ result_lng.kind # "absent"
        THEN IF ~Float(result_lat).ok
             THEN (IF ScoringCatches(Float(result_lat).exc) THEN zero
                   ELSE [exc |-> Float(result_lat).exc, score |-> 0])
             ELSE IF ~Float(result_lng).ok
             THEN (IF ScoringCatches(Float(result_lng).exc) THEN zero
                   ELSE [exc |-> Float(result_lng).exc, score |-> 0])
             ELSE ThresholdScore(Distance(query_location.lat, query_location.lng,
                                          Float(result_lat).v, Float(result_lng).v),
                                 distance_threshold_km)
        ELSE zero

\* The scoring without the test of line 254: with no reference the query city
\* is the empty text, which equals the city of a candidate without a city.
LocationScoreWithoutReferenceTest(candidate, query_location, same_city_weight, distance_threshold_km) ==
    IF query_location.kind = "place"
    THEN IF candidate.metadata.kind = "none" THEN [exc |-> "AttributeError", score |-> 0]
         ELSE IF candidate.metadata.city = query_location.city
              THEN [exc |-> "none", score |-> same_city_weight]
              ELSE ProximityScore(candidate.metadata, query_location, distance_threshold_km)
    ELSE IF candidate.metadata.kind = "none" THEN [exc |-> "AttributeError", score |-> 0]
         ELSE [exc |-> "none",
               score |-> IF candidate.metadata.city = <<>> THEN same_city_weight ELSE 0]

\* Lines 245-281: the location score of one candidate, or the exception
\* that leaves the loop.  result_metadata.get on None is an AttributeError,
\* raised outside the inner try.
LocationScore(candidate, query_location, same_city_weight, distance_threshold_km) ==
    IF query_location.kind = "place"
    THEN IF candidate.metadata.kind = "none" THEN [exc |-> "AttributeError", score |-> 0]
         ELSE IF candidate.metadata.city = query_location.city
              THEN [exc |-> "none", score |-> same_city_weight]
              ELSE ProximityScore(candidate.metadata, query_location, distance_threshold_km)
    ELSE [exc |-> "none", score |-> 0]

\* Lines 245-250 and 283: the scored result built from a candidate.
Scored(candidate, location_score) ==
    [content |-> candidate.content, metadata |-> candidate.metadata,
     distance |-> candidate.distance, location_score |-> location_score]

\* A sort key that ignores the location score.
KeyLessByDistance(x, y) == x.distance < y.distance

\* A sort key that adds the two scores up: distance minus location score.
KeyLessCombined(x, y) ==
    x.distance * Unit - x.location_score < y.distance * Unit - y.location_score

\* Line 287: the sort key (-location_score, distance), compared as tuples.
KeyLess(x, y) ==
    \/ -x.location_score < -y.location_score
    \/ (x.location_score = y.location_score /\ x.distance < y.distance)

\* An insertion that puts x before the elements of the same key.
RECURSIVE InsertBeforeEquals(_, _)
InsertBeforeEquals(sorted, x) ==
    IF sorted = <<>> THEN <<x>>
    ELSE IF ~KeyLess(Head(sorted), x) THEN <<x>> \o sorted
         ELSE <<Head(sorted)>> \o InsertBeforeEquals(Tail(sorted), x)

\* list.sort is stable: x goes behind every element that is not greater.
RECURSIVE InsertSorted(_, _)
InsertSorted(sorted, x) ==
    IF sorted = <<>> THEN <<x>>
    ELSE IF KeyLess(x, Head(sorted)) THEN <<x>> \o sorted
         ELSE <<Head(sorted)>> \o InsertSorted(Tail(sorted), x)

\* Line 287: formatted_results.sort(key=...).
RECURSIVE SortResults(_)
SortResults(results) ==
    IF results = <<>> THEN <<>>
    ELSE InsertSorted(SortResults(SubSeq(results, 1, Len(results) - 1)), results[Len(results)])

\* A return statement that cuts the list one item short of n.
SliceBelowN(results, n) == SubSeq(results, 1, Min(Max(n - 1, 0), Len(results)))

\* A return statement that does not cut the list.
SliceAll(results, n) == results

\* A return statement that hands back the candidates as they were delivered,
\* without the score the loop gave them.
SliceUnscored(results, n) ==
    [i \in 1..Len(SubSeq(results, 1, Min(Max(n, 0), Len(results)))) |->
        [content |-> results[i].content, metadata |-> results[i].metadata,
         distance |-> results[i].distance]]

\* Line 290: formatted_results[:n_results], a Python slice.
Slice(results, n) ==
    IF n >= 0 THEN SubSeq(results, 1, Min(n, Len(results)))
    ELSE SubSeq(results, 1, Max(0, Len(results) + n))

\* A candidate count without the ceiling.
CandidateCountUncapped(n) == n * 3

\* Line 236: the number of candidates asked of the collection.
CandidateCount(n) == Min(n * 3, 20)

\* collection.query on an index whose hits for the query are `hits`, nearest
\* first: the k nearest.
QueryIndex(hits, k) == SubSeq(hits, 1, Min(Max(k, 0), Len(hits)))

RECURSIVE ScoreCandidates(_, _, _, _, _, _)

\* Lines 252-283: candidate i has the score s, or scoring it raised.
ScoreNext(pool, i, query_location, w, t, acc, s) ==
    IF s.exc # "none" THEN [exc |-> s.exc, results |-> acc]
    ELSE ScoreCandidates(pool, i + 1, query_location, w, t, Append(acc, Scored(pool[i], s.score)))

\* Lines 243-283: the loop over the candidates, from candidate i on.
ScoreCandidates(pool, i, query_location, w, t, acc) ==
    IF i > Len(pool) THEN [exc |-> "none", results |-> acc]
    ELSE ScoreNext(pool, i, query_location, w, t, acc,
                   LocationScore(pool[i], query_location, w, t))

\* Lines 526-532: search_similar's results carry no location_score.
PlainResults(pool) == [i \in 1..Len(pool) |-> pool[i]]

\* ------------------------------------------------------------------------
\* The data the model runs on
\* ------------------------------------------------------------------------

\* Place names, as the dataset's city field writes them.
Fukui ==
    <<"F", "u", "k", "u", "i", "-", "s", "h", "i">>

Ono ==
    <<"O", "n", "o", "-", "s", "h", "i">>

Sakai ==
    <<"S", "a", "k", "a", "i", "-", "s", "h", "i">>

\* The queries a caller sends: one names Fukui, one Ono, one no place.
Queries ==
    { <<"s", "e", "e", " ">> \o Fukui,
      Ono \o <<" ", "w", "a", "l", "k">>,
      <<"t", "e", "m", "p", "l", "e", "s">> }

\* The dataset file with five records: Fukui with a geocoded and a raw
\* coordinate, a second Fukui record, Ono with a raw coordinate only, a record
\* without a city, and Sakai with no usable coordinate.
FullLocationsFile ==
    [kind |-> "list",
     records |-> <<
        LocationRecord(Fukui, Geometry(Num(FukuiLat), Num(FukuiLng)), Num(SakaiLat), Num(SakaiLng)),
        LocationRecord(Fukui, NoGeometry, Num(OnoLat), Num(OnoLng)),
        LocationRecord(Ono, NoGeometry, NumStr(OnoLat), NumStr(OnoLng)),
        LocationRecord(<<>>, Geometry(Num(SakaiLat), Num(SakaiLng)), Absent, Absent),
        LocationRecord(Sakai, Geometry(BadStr, Num(SakaiLng)), Absent, Num(SakaiLng)) >>]

\* The states of output/fukui_enhanced_locations.json.
LocationFiles ==
    {FullLocationsFile, [kind |-> "missing", records |-> <<>>],
     [kind |-> "unreadable", records |-> <<>>], [kind |-> "malformed", records |-> <<>>]}

\* The documents of the collection, by content, with their metadata:
\*   A  tagged Fukui, at Ono's coordinate (26 km from Fukui)
\*   B  tagged Sakai, at Sakai's coordinate (13 km from Fukui, 31 km from Ono)
\*   D  no metadata at all
\*   E  no city, a latitude that is no number
\*   H  no city, a latitude and no longitude
DocumentMetadata ==
    [A |-> Metadata(Fukui, NumStr(OnoLat), NumStr(OnoLng)),
     B |-> Metadata(Sakai, NumStr(SakaiLat), NumStr(SakaiLng)),
     D |-> NoMetadata,
     E |-> Metadata(<<>>, BadStr, NumStr(FukuiLng)),
     H |-> Metadata(<<>>, Num(FukuiLat), Absent)]

Documents == DOMAIN DocumentMetadata

\* The longest list of hits the index returns for a query.
MaxPool == 3

\* The largest n_results a caller asks for.
MaxN == 2

\* The parameter pairs (same_city_weight, distance_threshold_km) of a call:
\* the defaults (line 219), a smaller bonus with the 50 km of /chat with a
\* user location (src/backend/app.py, 296), and a threshold of 0.
Parameters == {<<2 * Unit, 20 * Unit>>, <<Unit \div 2, 50 * Unit>>, <<2 * Unit, 0>>}

\* The semantic distances of a list of n hits, nearest first: the first is 1
\* and each next one is equal to or one more than the one before.
RECURSIVE Distances(_, _)
Distances(steps, i) ==
    IF i = 1 THEN 1 ELSE Distances(steps, i - 1) + steps[i]

\* The lists of hits the index can hold for a query: up to MaxPool distinct
\* documents (document ids are unique), in ascending semantic distance.
Hits ==
    UNION { { [i \in 1..n |-> Candidate(docs[i], DocumentMetadata[docs[i]], Distances(steps, i))] :
                docs \in { f \in [1..n -> Documents] : \A i, j \in 1..n : i # j => f[i] # f[j] },
                steps \in [1..n -> {0, 1}] } : n \in 0..MaxPool }

\* ------------------------------------------------------------------------
\* The /chat request (src/backend/app.py)
\* ------------------------------------------------------------------------

\* request.user_location: None, or a mapping whose latitude and longitude
\* are values.
NoUserLocation == [kind |-> "none"]

UserLocation(lat, lng) == [kind |-> "dict", latitude |-> lat, longitude |-> lng]

\* The truth value of request.user_location: None and {} are false.
Supplied(user) ==
    user.kind = "dict" /\ (user.latitude.kind # "absent" \/ user.longitude.kind # "absent")

\* The truth value of user_location.get(key): None and 0 are false.
Truthy(v) == v.kind = "num" /\ v.v # 0

Digit(d) == <<"0", "1", "2", "3", "4", "5", "6", "7", "8", "9">>[d + 1]

RECURSIVE Decimal(_)
Decimal(n) == IF n < 10 THEN <<Digit(n)>> ELSE Append(Decimal(n \div 10), Digit(n % 10))

\* f"{x:.4f}" of a coordinate x >= 0.
Format4f(x) ==
    Decimal(x \div 10000)
        \o <<".", Digit((x \div 1000) % 10), Digit((x \div 100) % 10),
             Digit((x \div 10) % 10), Digit(x % 10)>>

\* Line 285: the text that carries the user's coordinate (without the line
\* breaks before it).
LocationContext(lat, lng) ==
        <<"[", "U", "s", "e", "r", " ", "l", "o", "c", "a", "t", "i", "o",
          "n", ":", " ", "L", "a", "t", "i", "t", "u", "d", "e", " ">>
        \o Format4f(lat)
        \o
        <<",", " ", "L", "o", "n", "g", "i", "t", "u", "d", "e", " ">>
        \o Format4f(lng) \o <<"]">>

\* Line 290: the note for a user in or near the prefecture.
NearFukuiNote ==
    <<"[", "N", "o", "t", "e", ":", " ", "U", "s", "e", "r", " ", "i", "s",
      " ", "c", "u", "r", "r", "e", "n", "t", "l", "y", " ", "i", "n", " ",
      "o", "r", " ", "n", "e", "a", "r", " ", "F", "u", "k", "u", "i", " ",
      "P", "r", "e", "f", "e", "c", "t", "u", "r", "e", ",", " ", "p", "l",
      "e", "a", "s", "e", " ", "p", "r", "i", "o", "r", "i", "t", "i", "z",
      "e", " ", "r", "e", "c", "o", "m", "m", "e", "n", "d", "i", "n", "g",
      " ", "n", "e", "a", "r", "b", "y", " ", "a", "t", "t", "r", "a", "c",
      "t", "i", "o", "n", "s", "]">>

\* Line 277: the text that carries the time of the request; its label is
\* written here in English.
TimeInfo ==
    <<"[", "t", "i", "m", "e", ":", " ", "2", "0", "2", "5", "-", "0", "7",
      "-", "0", "1", "T", "1", "0", ":", "0", "0", ":", "0", "0", "]">>

\* The centre of the prefecture and the radius of is_near_fukui, lines 364
\* and 376-377.
fukui_center_lat == 359044

fukui_center_lng == 1361892

radius_km == 100

\* Tokyo station, a coordinate far from the prefecture.
Tokyo == <<356812, 1397671>>

\* The user locations of a request: none, a user in Sakai, a user in Tokyo,
\* and a mapping without a latitude.
UserLocations ==
    {NoUserLocation, UserLocation(Num(SakaiLat), Num(SakaiLng)),
     UserLocation(Num(Tokyo[1]), Num(Tokyo[2])), UserLocation(Absent, Num(SakaiLng))}

\* is_near_fukui, lines 364-392, of the coordinates that user locations carry.
NearFukui ==
    [c \in { <<u.latitude.v, u.longitude.v>> :
                u \in { x \in UserLocations : x.kind = "dict" /\ Truthy(x.latitude)
                                                /\ Truthy(x.longitude) } } |->
        calculate_distance(c[1], c[2], fukui_center_lat, fukui_center_lng) <= radius_km * Unit]

is_near_fukui(latitude, longitude) == NearFukui[<<latitude, longitude>>]

\* Lines 273-290: the message with the time and the user's location added.
WithTime(message, has_timestamp) ==
    IF has_timestamp THEN message \o TimeInfo ELSE message

WithLocation(message, user) ==
    IF Supplied(user) /\ Truthy(user.latitude) /\ Truthy(user.longitude)
    THEN message \o LocationContext(user.latitude.v, user.longitude.v)
            \o (IF is_near_fukui(user.latitude.v, user.longitude.v)
                THEN NearFukuiNote ELSE <<>>)
    ELSE message

enhanced_message(message, has_timestamp, user) ==
    WithLocation(WithTime(message, has_timestamp), user)

\* Line 295: n_results of the search of /chat.
ChatResults == 5

\* Line 296: distance_threshold_km of the search of /chat.
ChatThreshold(user) == IF Supplied(user) THEN 50 * Unit ELSE 20 * Unit

\* The default same_city_weight, src/src/Vector_Database/ChromaDB_v1.py, 219.
DefaultSameCityWeight == 2 * Unit

\* ------------------------------------------------------------------------
\* State
\* ------------------------------------------------------------------------

VARIABLES
    pc,                     \* "idle", "except" (in the handler of line 292), "done",
                            \* "resolved" (extract_location_from_query returned), "raised",
                            \* "answered" (the handler of the request has its response)
    locations_file,         \* output/fukui_enhanced_locations.json
    user_location,          \* request.user_location of /chat; none for a direct call
    query,                  \* the arguments of the call in progress
    n_results,
    same_city_weight,
    distance_threshold_km,
    hits,                   \* what the index holds for the query, nearest first
    requested,              \* the collection.query calls of the call: n_results and outcome
    initial_results,        \* the candidates of line 234
    query_location,         \* line 241
    formatted_results,      \* the list the return statement takes the results from
    result,                 \* what the call returns
    distance_call,          \* the arguments of a calculate_distance call, or <<>>
    distances,              \* what calculate_distance returned for them, and for them swapped
    gazetteer_builds,       \* how often the manager has built city_coords, up to MaxBuilds
    calls,                  \* the frames of the calls that run at the same time on one manager
    chroma_manager,         \* app.py's global: "down" before startup, "none" (None), "ready"
    database,               \* chroma.sqlite3 under db_path, and the backup files next to it
    collection,             \* the documents of the collection the manager has open
    inserted,               \* the documents that insert_documents has stored so far
    startup,                \* what the last startup found: an empty collection, the data files
    reply                   \* the response to the request in progress

vars == <<pc, locations_file, user_location, query, n_results, same_city_weight,
          distance_threshold_km, hits, requested, initial_results, query_location,
          formatted_results, result, distance_call, distances, gazetteer_builds, calls,
          chroma_manager, database, collection, inserted, startup, reply>>

\* The variables of a calculate_distance call, and the frames of the calls
\* that run at the same time.
measure == <<distance_call, distances, calls>>

\* The service and its database, apart from the response in progress.
service == <<chroma_manager, database, collection, inserted, startup>>

\* The calls that run at the same time.
Threads == {1, 2}

\* The frame of a call that has not started.
IdleCall ==
    [pc |-> "idle", query |-> <<>>, n_results |-> 0, hits |-> <<>>, requested |-> <<>>,
     initial_results |-> <<>>, query_location |-> NoLocation, formatted_results |-> <<>>,
     result |-> <<>>]

frame == <<user_location, query, n_results, same_city_weight, distance_threshold_km,
           hits, requested, initial_results, query_location, formatted_results, result>>

\* No call in progress.
IdleFrame ==
    /\ user_location = NoUserLocation
    /\ query = <<>>
    /\ n_results = 0
    /\ same_city_weight = 0
    /\ distance_threshold_km = 0
    /\ hits = <<>>
    /\ requested = <<>>
    /\ initial_results = <<>>
    /\ query_location = NoLocation
    /\ formatted_results = <<>>
    /\ result = <<>>

\* No response yet.
NoReply == [status |-> 0]

\* db_path: whether chroma.sqlite3 exists, the documents of the collection
\* stored in it, and the documents held by the backup files next to it.
Database(exists, documents, backup) ==
    [exists |-> exists, documents |-> documents, backup |-> backup]

\* What a startup found: why no manager was made ("none" when one was),
\* whether the collection it opened was empty and whether both markdown
\* files existed.
StartupFound(failure, was_empty, files_exist) ==
    [failure |-> failure, was_empty |-> was_empty, files_exist |-> files_exist]

\* No startup so far.
NoStartup == StartupFound("none", FALSE, FALSE)

\* A service whose manager is ready, with every document in its collection.
ServiceReady ==
    /\ chroma_manager = "ready"
    /\ database = Database(TRUE, Documents, {})
    /\ collection = Documents
    /\ inserted = Documents
    /\ startup = NoStartup
    /\ reply = NoReply

\* A manager in service: it has built gazetteers before, as often as is
\* counted.
Init ==
    /\ pc = "idle"
    /\ locations_file \in LocationFiles
    /\ IdleFrame
    /\ distance_call = <<>>
    /\ distances = <<>>
    /\ gazetteer_builds = MaxBuilds
    /\ calls = [t \in Threads |-> IdleCall]
    /\ ServiceReady

\* ------------------------------------------------------------------------
\* Operations
\* ------------------------------------------------------------------------

\* Lines 285-290: the scored list is sorted and cut to n_results, unless
\* scoring raised.
RankAndCut(pool, loc, n, scored) ==
    IF scored.exc # "none"
    THEN [exc |-> scored.exc, initial_results |-> pool, query_location |-> loc,
          formatted_results |-> <<>>, result |-> <<>>]
    ELSE [exc |-> "none", initial_results |-> pool, query_location |-> loc,
          formatted_results |-> SortResults(scored.results),
          result |-> Slice(SortResults(scored.results), n)]

\* Lines 241-290: the candidates are scored against the place of the query.
ScoreAndRank(pool, loc, n, w, t) ==
    RankAndCut(pool, loc, n, ScoreCandidates(pool, 1, loc, w, t, <<>>))

\* Lines 232-290: the try block of search_similar_with_location, as one
\* outcome record.  query_ok is whether collection.query answers.
LocationSearch(file, q, n, w, t, index, query_ok) ==
    IF ~query_ok
    THEN [exc |-> "QueryError", initial_results |-> <<>>, query_location |-> NoLocation,
          formatted_results |-> <<>>, result |-> <<>>]
    ELSE IF ExtractionEscapes(file) # "none"
    THEN [exc |-> ExtractionEscapes(file), initial_results |-> QueryIndex(index, CandidateCount(n)),
          query_location |-> NoLocation, formatted_results |-> <<>>, result |-> <<>>]
    ELSE ScoreAndRank(QueryIndex(index, CandidateCount(n)),
                      extract_location_from_query(file, q), n, w, t)

\* One collection.query of a call: the n_results asked for, and whether the
\* collection answered.
Request(k, ok) == [n_results |-> k, ok |-> ok]

\* Lines 218-293, the call search_similar_with_location(q, n, w, t) on an
\* index that holds `index` for q: it returns, or enters its handler.
Call(q, n, w, t, index, query_ok) ==
    \E out \in {LocationSearch(locations_file, q, n, w, t, index, query_ok)} :
        /\ query' = q
        /\ n_results' = n
        /\ same_city_weight' = w
        /\ distance_threshold_km' = t
        /\ hits' = index
        /\ requested' = <<Request(CandidateCount(n), query_ok)>>
        /\ initial_results' = out.initial_results
        /\ query_location' = out.query_location
        /\ formatted_results' = out.formatted_results
        /\ result' = out.result
        /\ pc' = IF out.exc = "none" THEN "done"
                 ELSE IF LocationSearchCatches(out.exc) THEN "except" ELSE "raised"
        /\ gazetteer_builds' = IF query_ok THEN BuildsAfter(locations_file, gazetteer_builds)
                               ELSE gazetteer_builds
        /\ UNCHANGED <<measure, service, reply>>

\* search_similar_with_location called directly, as the demonstrations and
\* ask_gpt do.
SearchSimilarWithLocation ==
    /\ pc = "idle"
    /\ \E q \in Queries, n \in 0..MaxN, p \in Parameters, index \in Hits, query_ok \in BOOLEAN :
        Call(q, n, p[1], p[2], index, query_ok)
    /\ UNCHANGED <<locations_file, user_location>>

\* A handler that queries the collection once more when its query fails.
SearchSimilarRetrying ==
    /\ pc = "except"
    /\ Len(requested) < 3
    /\ \E query_ok \in BOOLEAN :
        /\ requested' = Append(requested, Request(n_results, query_ok))
        /\ IF query_ok
           THEN /\ formatted_results' = PlainResults(QueryIndex(hits, n_results))
                /\ result' = formatted_results'
                /\ pc' = "done"
           ELSE /\ formatted_results' = <<>>
                /\ result' = <<>>
                /\ pc' = IF Len(requested) < 2 THEN "except" ELSE "done"
    /\ UNCHANGED <<locations_file, user_location, query, n_results, same_city_weight,
                   distance_threshold_km, hits, initial_results, query_location, measure,
                   gazetteer_builds, service, reply>>

\* Lines 294-295 and search_similar, 519-538: the handler queries the
\* collection again, for n_results hits, and returns them as they come, or
\* returns [] when that query fails too.
SearchSimilar ==
    /\ pc = "except"
    /\ \E query_ok \in BOOLEAN :
        /\ requested' = Append(requested, Request(n_results, query_ok))
        /\ IF query_ok
           THEN /\ formatted_results' = PlainResults(QueryIndex(hits, n_results))
                /\ result' = formatted_results'
                /\ pc' = "done"
           ELSE /\ formatted_results' = <<>>
                /\ result' = <<>>
                /\ pc' = IF SearchSimilarCatches("QueryError") THEN "done" ELSE "raised"
    /\ UNCHANGED <<locations_file, user_location, query, n_results, same_city_weight,
                   distance_threshold_km, hits, initial_results, query_location, measure,
                   gazetteer_builds, service, reply>>

\* extract_location_from_query(q) called on its own: it returns a place or
\* None, or an exception leaves it.
ExtractFrom(q) ==
    /\ query' = q
    /\ query_location' = IF ExtractionEscapes(locations_file) = "none"
                         THEN extract_location_from_query(locations_file, q)
                         ELSE NoLocation
    /\ pc' = IF ExtractionEscapes(locations_file) = "none" THEN "resolved" ELSE "raised"
    /\ gazetteer_builds' = BuildsAfter(locations_file, gazetteer_builds)
    /\ UNCHANGED <<locations_file, user_location, n_results, same_city_weight,
                   distance_threshold_km, hits, requested, initial_results,
                   formatted_results, result, measure, service, reply>>

ExtractLocationFromQuery ==
    /\ pc = "idle"
    /\ \E q \in Queries : ExtractFrom(q)

\* The caller takes the result, or the exception, and the call is over.
Return ==
    /\ pc \in {"done", "resolved", "raised", "answered"}
    /\ pc' = "idle"
    /\ reply' = NoReply
    /\ user_location' = NoUserLocation
    /\ query' = <<>>
    /\ n_results' = 0
    /\ same_city_weight' = 0
    /\ distance_threshold_km' = 0
    /\ hits' = <<>>
    /\ requested' = <<>>
    /\ initial_results' = <<>>
    /\ query_location' = NoLocation
    /\ formatted_results' = <<>>
    /\ result' = <<>>
    /\ UNCHANGED <<locations_file, measure, gazetteer_builds, service>>

\* Between two calls the dataset file is replaced, removed or damaged.
ReplaceLocationsFile ==
    /\ pc = "idle"
    /\ locations_file' \in LocationFiles \ {locations_file}
    /\ UNCHANGED <<pc, frame, measure, gazetteer_builds, service, reply>>

Next ==
    \/ SearchSimilarWithLocation
    \/ SearchSimilar
    \/ ExtractLocationFromQuery
    \/ Return
    \/ ReplaceLocationsFile

Spec == Init /\ [][Next]_vars

\* ------------------------------------------------------------------------
\* The search of /chat
\* ------------------------------------------------------------------------

\* src/backend/app.py, lines 271-297: /chat builds the enhanced message and
\* searches with it.
ChatSearchOf(messages, users, indexes) ==
    /\ pc = "idle"
    /\ chroma_manager = "ready"
    /\ \E message \in messages, has_timestamp \in BOOLEAN, user \in users,
          index \in indexes, query_ok \in BOOLEAN :
        /\ user_location' = user
        /\ Call(enhanced_message(message, has_timestamp, user), ChatResults,
                DefaultSameCityWeight, ChatThreshold(user), index, query_ok)
    /\ UNCHANGED locations_file

ChatSearch == ChatSearchOf(Queries, UserLocations, Hits)

\* A response of the API: the HTTP status and, for /chat, the fields of
\* ChatResponse, with the number of ask_gpt calls and of chat completions the
\* request has made.
Reply(status, success, answer, sources, ask_gpt, completions) ==
    [status |-> status, success |-> success, answer |-> answer, sources |-> sources,
     ask_gpt |-> ask_gpt, completions |-> completions]

\* Some document of the list has None for metadata.
HasNoMetadata(docs) == \E i \in DOMAIN docs : docs[i].metadata.kind = "none"

\* A handler that asks the language model whatever the search returned.
ChatReplyAlwaysAsking(relevant_docs, include_sources, gpt_ok) ==
    IF HasNoMetadata(relevant_docs)
    THEN Reply(200, ~include_sources, IF include_sources THEN "chat_error" ELSE "gpt_error",
               0, 1, 0)
    ELSE Reply(200, TRUE, IF gpt_ok THEN "gpt" ELSE "gpt_error",
               IF include_sources THEN Len(relevant_docs) ELSE 0, 1, 1)

\* src/backend/app.py, lines 299-362, and ask_gpt, lines 551-639: the answer
\* to the documents the search returned.  Without documents the fixed text is
\* the answer.  Otherwise ask_gpt is called; it reads the title of every
\* document, which fails on None metadata and yields its error text without
\* a completion, and else requests one completion, whose failure yields the
\* error text too.  The sources read the metadata again, outside ask_gpt:
\* a failure there makes the response the error response of line 356.
ChatReply(relevant_docs, include_sources, gpt_ok) ==
    IF relevant_docs = <<>>
    THEN Reply(200, TRUE, "not_found", 0, 0, 0)
    ELSE IF HasNoMetadata(relevant_docs)
    THEN Reply(200, ~include_sources, IF include_sources THEN "chat_error" ELSE "gpt_error",
               0, 1, 0)
    ELSE Reply(200, TRUE, IF gpt_ok THEN "gpt" ELSE "gpt_error",
               IF include_sources THEN Len(relevant_docs) ELSE 0, 1, 1)

\* Lines 299-362: /chat answers from the documents of the search.
ChatAnswer ==
    /\ pc = "done"
    /\ \E include_sources \in BOOLEAN, gpt_ok \in BOOLEAN :
        reply' = ChatReply(result, include_sources, gpt_ok)
    /\ pc' = "answered"
    /\ UNCHANGED <<locations_file, frame, measure, gazetteer_builds, service>>

\* The client has the response.
Respond ==
    /\ pc = "answered"
    /\ Return

ChatNext ==
    \/ ChatSearch
    \/ SearchSimilar
    \/ ChatAnswer
    \/ Respond
    \/ ReplaceLocationsFile

SpecChat == Init /\ [][ChatNext]_vars

\* ------------------------------------------------------------------------
\* Calls that ask for many results
\* ------------------------------------------------------------------------

\* The largest n_results of a call that asks for many results.
MaxRequest == 21

\* The lists of at most one hit.
ShortHits == { h \in Hits : Len(h) <= 1 }

\* search_similar_with_location with its default weights and an n_results of
\* up to MaxRequest.
SearchManyResults ==
    /\ pc = "idle"
    /\ \E q \in Queries, n \in 1..MaxRequest, index \in ShortHits, query_ok \in BOOLEAN :
        Call(q, n, DefaultSameCityWeight, 20 * Unit, index, query_ok)
    /\ UNCHANGED <<locations_file, user_location>>

RequestNext ==
    \/ SearchManyResults
    \/ SearchSimilar
    \/ Return
    \/ ReplaceLocationsFile

SpecRequest == Init /\ [][RequestNext]_vars

\* ------------------------------------------------------------------------
\* The gazetteer over datasets of a few records
\* ------------------------------------------------------------------------

\* A place name that is part of another: Fukui without its suffix.
FukuiBare == SubSeq(Fukui, 1, 5)

\* The records a dataset is made of:
\*   Fukui with a geocoded coordinate (Fukui's) and a raw one (Sakai's)
\*   Fukui again, with a raw coordinate only (Ono's)
\*   Ono with a raw coordinate written as strings
\*   Ono with a geometry that spells no number and half a raw coordinate
\*   the bare name of Fukui, at Sakai's coordinate
\*   Sakai with a geometry whose location has no lat and no lng
\*   a record without a city
DatasetRecords ==
    { LocationRecord(Fukui, Geometry(Num(FukuiLat), Num(FukuiLng)), Num(SakaiLat), Num(SakaiLng)),
      LocationRecord(Fukui, NoGeometry, Num(OnoLat), Num(OnoLng)),
      LocationRecord(Ono, NoGeometry, NumStr(OnoLat), NumStr(OnoLng)),
      LocationRecord(Ono, Geometry(BadStr, Num(OnoLng)), Absent, Num(OnoLng)),
      LocationRecord(FukuiBare, NoGeometry, Num(SakaiLat), Num(SakaiLng)),
      LocationRecord(Sakai, GeometryWithoutKeys, Num(SakaiLat), Num(SakaiLng)),
      LocationRecord(<<>>, Geometry(Num(SakaiLat), Num(SakaiLng)), Absent, Absent) }

\* The most records of a dataset.
MaxRecords == 3

\* The dataset files that parse: every list of at most MaxRecords records.
DatasetFiles ==
    { [kind |-> "list", records |-> records] :
        records \in UNION { [1..k -> DatasetRecords] : k \in 0..MaxRecords } }

\* The queries sent to the resolver: those of Queries, one that names two
\* places (and so three gazetteer names), and one with the bare name only.
PlaceQueries ==
    Queries \cup
    { Ono \o <<" ", "o", "r", " ">> \o Fukui,
      <<"i", "n", " ">> \o FukuiBare }

\* A manager that has resolved no query yet.
InitDataset ==
    /\ pc = "idle"
    /\ locations_file \in DatasetFiles
    /\ IdleFrame
    /\ distance_call = <<>>
    /\ distances = <<>>
    /\ gazetteer_builds = 0
    /\ calls = [t \in Threads |-> IdleCall]
    /\ ServiceReady

\* extract_location_from_query on one of the place queries.
ResolvePlace ==
    /\ pc = "idle"
    /\ \E q \in PlaceQueries : ExtractFrom(q)

DatasetNext ==
    \/ ResolvePlace
    \/ Return

SpecDataset == InitDataset /\ [][DatasetNext]_vars

\* ------------------------------------------------------------------------
\* calculate_distance over the latitude/longitude domain
\* ------------------------------------------------------------------------

\* Coordinates of the domain, in 1/10000 degree: the places of the
\* demonstration, the centre of the prefecture and Tokyo, the point (0, 0),
\* both poles, both ends of the longitude range, and two antipodal points.
DomainCoordinates ==
    KnownCoordinates \cup
    { <<fukui_center_lat, fukui_center_lng>>, Tokyo,
      <<0, 0>>, <<900000, 0>>, <<-900000, 0>>, <<0, 1800000>>, <<0, -1800000>>,
      <<450000, 300000>>, <<-450000, -1500000>> }

InitDistance ==
    /\ pc = "idle"
    /\ locations_file = [kind |-> "missing", records |-> <<>>]
    /\ IdleFrame
    /\ distance_call \in { <<a[1], a[2], b[1], b[2]>> : a, b \in DomainCoordinates }
    /\ distances = <<>>
    /\ gazetteer_builds = 0
    /\ calls = [t \in Threads |-> IdleCall]
    /\ ServiceReady

\* calculate_distance(lat1, lng1, lat2, lng2).
CalculateDistance ==
    /\ Len(distances) = 0
    /\ distances' = <<calculate_distance(distance_call[1], distance_call[2],
                                         distance_call[3], distance_call[4])>>
    /\ UNCHANGED <<pc, locations_file, frame, distance_call, gazetteer_builds, calls,
                   service, reply>>

\* calculate_distance(lat2, lng2, lat1, lng1): the same two points, swapped.
CalculateDistanceBack ==
    /\ Len(distances) = 1
    /\ distances' = Append(distances,
                           calculate_distance(distance_call[3], distance_call[4],
                                              distance_call[1], distance_call[2]))
    /\ UNCHANGED <<pc, locations_file, frame, distance_call, gazetteer_builds, calls,
                   service, reply>>

DistanceNext ==
    \/ CalculateDistance
    \/ CalculateDistanceBack

SpecDistance == InitDistance /\ [][DistanceNext]_vars

\* ------------------------------------------------------------------------
\* Two calls of search_similar_with_location at the same time
\* ------------------------------------------------------------------------

\* The lists of two hits whose second hit is A (of Fukui) or D (no metadata).
PairHits ==
    { h \in Hits : Len(h) = 2 /\ h[1].distance < h[2].distance /\ h[2].content \in {"A", "D"} }

\* A frame that every call shares, as attributes of the manager would be.
SharedFrame(frames, t) == frames[1]

\* Lines 232-290: initial_results, query_location and formatted_results are
\* locals of the call, and a call reads its own.
OwnFrame(frames, t) == frames[t]

\* Line 234 of call t, search_similar_with_location(q, 1) with the default
\* weights, on an index that holds `index` for q.
StartCall(t) ==
    /\ calls[t].pc = "idle"
    /\ \E q \in Queries, index \in PairHits, query_ok \in BOOLEAN :
        calls' = [calls EXCEPT ![t] =
                    [IdleCall EXCEPT
                        !.pc = IF query_ok THEN "queried" ELSE "except",
                        !.query = q,
                        !.n_results = 1,
                        !.hits = index,
                        !.requested = <<Request(CandidateCount(1), query_ok)>>,
                        !.initial_results = IF query_ok
                                            THEN QueryIndex(index, CandidateCount(1))
                                            ELSE <<>>]]
    /\ UNCHANGED <<pc, locations_file, frame, distance_call, distances, gazetteer_builds,
                   service, reply>>

\* Line 241 of call t.
ResolveCall(t) ==
    /\ calls[t].pc = "queried"
    /\ calls' = [calls EXCEPT ![t].pc = "resolved",
                              ![t].query_location =
                                  extract_location_from_query(locations_file,
                                                              OwnFrame(calls, t).query)]
    /\ gazetteer_builds' = BuildsAfter(locations_file, gazetteer_builds)
    /\ UNCHANGED <<pc, locations_file, frame, distance_call, distances, service, reply>>

\* Lines 243-287 of call t: the candidates are scored and sorted, or scoring
\* raises and the call enters its handler.
RankCall(t) ==
    /\ calls[t].pc = "resolved"
    /\ \E scored \in {ScoreCandidates(OwnFrame(calls, t).initial_results, 1,
                                        OwnFrame(calls, t).query_location,
                                        DefaultSameCityWeight, 20 * Unit, <<>>)} :
        calls' = [calls EXCEPT
                    ![t].pc = IF scored.exc = "none" THEN "ranked"
                              ELSE IF LocationSearchCatches(scored.exc) THEN "except"
                              ELSE "raised",
                    ![t].formatted_results = IF scored.exc = "none"
                                             THEN SortResults(scored.results) ELSE <<>>]
    /\ UNCHANGED <<pc, locations_file, frame, distance_call, distances, gazetteer_builds,
                   service, reply>>

\* Line 290 of call t.
CutCall(t) ==
    /\ calls[t].pc = "ranked"
    /\ calls' = [calls EXCEPT ![t].pc = "done",
                              ![t].result = Slice(OwnFrame(calls, t).formatted_results,
                                                  OwnFrame(calls, t).n_results)]
    /\ UNCHANGED <<pc, locations_file, frame, distance_call, distances, gazetteer_builds,
                   service, reply>>

\* Lines 292-295 and search_similar of call t.
FallbackCall(t) ==
    /\ calls[t].pc = "except"
    /\ \E query_ok \in BOOLEAN :
        calls' = [calls EXCEPT
                    ![t].pc = "done",
                    ![t].requested = Append(@, Request(OwnFrame(calls, t).n_results, query_ok)),
                    ![t].formatted_results =
                        IF query_ok
                        THEN PlainResults(QueryIndex(OwnFrame(calls, t).hits,
                                                     OwnFrame(calls, t).n_results))
                        ELSE <<>>,
                    ![t].result =
                        IF query_ok
                        THEN PlainResults(QueryIndex(OwnFrame(calls, t).hits,
                                                     OwnFrame(calls, t).n_results))
                        ELSE <<>>]
    /\ UNCHANGED <<pc, locations_file, frame, distance_call, distances, gazetteer_builds,
                   service, reply>>

\* The caller of call t takes the result.
ReturnCall(t) ==
    /\ calls[t].pc \in {"done", "raised"}
    /\ calls' = [calls EXCEPT ![t] = IdleCall]
    /\ UNCHANGED <<pc, locations_file, frame, distance_call, distances, gazetteer_builds,
                   service, reply>>

ConcurrentNext ==
    \/ \E t \in Threads : StartCall(t)
    \/ \E t \in Threads : ResolveCall(t)
    \/ \E t \in Threads : RankCall(t)
    \/ \E t \in Threads : CutCall(t)
    \/ \E t \in Threads : FallbackCall(t)
    \/ \E t \in Threads : ReturnCall(t)

SpecConcurrent == Init /\ [][ConcurrentNext]_vars

\* ------------------------------------------------------------------------
\* The API service (src/backend/app.py) and the manager's database
\* ------------------------------------------------------------------------

\* The documents load_and_process_files parses from
\* output/locations_natural_language.md and output/shrines_natural_language.md.
ParsedDocuments == {"A", "B"}

\* The lists of documents insert_documents is called with.
Batches == {ParsedDocuments, {"D"}, {}}

\* src/src/Vector_Database/ChromaDB_v1.py, line 411: the parameters of
\* load_and_process_files, besides self.
LoadAndProcessFilesParameters == {"locations_file", "shrines_file"}

\* src/backend/app.py, lines 168-170: the keyword arguments load_initial_data
\* passes to load_and_process_files.
LoadInitialDataKeywords == {"max_locations", "max_shrines"}

\* A call with keyword arguments binds when the function has a parameter of
\* each name; otherwise Python raises TypeError before the body runs.
Binds(parameters, keywords) == keywords \subseteq parameters

\* Lines 95-115: chroma.sqlite3 is renamed to a backup file whenever it
\* exists; a rename that fails is logged and the file stays.
CleanupCorruptedDb(db, rename_ok) ==
    IF db.exists /\ rename_ok
    THEN Database(FALSE, {}, db.backup \cup db.documents)
    ELSE db

\* Lines 68-82: PersistentClient opens chroma.sqlite3 under db_path, or
\* makes an empty one; get_collection loads the collection stored in it and
\* create_collection makes an empty one when there is none.
OpenCollection(db) == Database(TRUE, db.documents, db.backup)

\* src/backend/app.py, lines 152-184, called on an empty collection: without
\* either file nothing is loaded (line 164); the call of line 168 raises
\* TypeError unless it binds, and the handler of line 183 only prints it;
\* otherwise the parsed documents are inserted.
load_initial_data(documents, files_exist) ==
    IF ~files_exist THEN documents
    ELSE IF ~Binds(LoadAndProcessFilesParameters, LoadInitialDataKeywords) THEN documents
    ELSE documents \cup ParsedDocuments

\* The process is not running; db_path is empty or holds a database with
\* every document, inserted by an earlier process.
InitService ==
    /\ pc = "idle"
    /\ locations_file = FullLocationsFile
    /\ IdleFrame
    /\ distance_call = <<>>
    /\ distances = <<>>
    /\ gazetteer_builds = MaxBuilds
    /\ calls = [t \in Threads |-> IdleCall]
    /\ chroma_manager = "down"
    /\ database \in {Database(FALSE, {}, {}), Database(TRUE, Documents, {})}
    /\ collection = {}
    /\ inserted = database.documents
    /\ startup = NoStartup
    /\ reply = NoReply

\* The manager cannot be made: lifespan leaves chroma_manager None.
StartupFails(failure, db) ==
    /\ chroma_manager' = "none"
    /\ database' = db
    /\ collection' = {}
    /\ startup' = StartupFound(failure, FALSE, FALSE)

\* src/backend/app.py, lines 30-36 and 44-79, with the constructor of the
\* manager (src/src/Vector_Database/ChromaDB_v1.py, 26-93): the start of the
\* process.  A failed import ends lifespan at line 53; a missing
\* OPENAI_API_KEY (line 57) or a failing client (line 68) raises in the
\* constructor, after the clean-up in the second case, and the handler of
\* line 73 sets chroma_manager to None.  Otherwise the collection is opened
\* and, when it counts no documents, load_initial_data runs.
Startup ==
    /\ pc = "idle"
    /\ chroma_manager = "down"
    /\ \E importable \in BOOLEAN, key_present \in BOOLEAN, rename_ok \in BOOLEAN,
          client_ok \in BOOLEAN, files_exist \in BOOLEAN :
        IF ~importable THEN StartupFails("import", database)
        ELSE IF ~key_present THEN StartupFails("key", database)
        ELSE IF ~client_ok
        THEN StartupFails("client", CleanupCorruptedDb(database, rename_ok))
        ELSE \E db \in {OpenCollection(CleanupCorruptedDb(database, rename_ok))} :
            /\ chroma_manager' = "ready"
            /\ startup' = StartupFound("none", db.documents = {}, files_exist)
            /\ collection' = IF db.documents = {}
                              THEN load_initial_data(db.documents, files_exist)
                              ELSE db.documents
            /\ database' = Database(TRUE, collection', db.backup)
    /\ UNCHANGED <<pc, locations_file, frame, measure, gazetteer_builds, inserted, reply>>

\* The process ends; db_path stays as it is.
Shutdown ==
    /\ pc = "idle"
    /\ chroma_manager \in {"none", "ready"}
    /\ chroma_manager' = "down"
    /\ collection' = {}
    /\ UNCHANGED <<pc, locations_file, frame, measure, gazetteer_builds, database,
                   inserted, startup, reply>>

\* src/src/Vector_Database/ChromaDB_v1.py, lines 461-507: insert_documents
\* adds the documents to the collection, or logs the failure of
\* collection.add and returns False.
InsertDocuments ==
    /\ pc = "idle"
    /\ chroma_manager = "ready"
    /\ \E documents \in Batches, add_ok \in BOOLEAN :
        /\ collection' = IF add_ok THEN collection \cup documents ELSE collection
        /\ inserted' = IF add_ok THEN inserted \cup documents ELSE inserted
        /\ database' = Database(TRUE, collection', database.backup)
    /\ UNCHANGED <<pc, locations_file, frame, measure, gazetteer_builds, chroma_manager,
                   startup, reply>>

\* A handler that never finds the manager missing.
IsNoneNever(manager) == FALSE

\* `chroma_manager is None`, the first test of /health, /chat and /search.
IsNone(manager) == manager = "none"

\* HTTPException(status_code=503), lines 253, 269 and 591.
Unavailable == Reply(503, FALSE, "unavailable", 0, 0, 0)

\* The response of a request: the handler is left.
Answer(response) ==
    /\ reply' = response
    /\ pc' = "answered"
    /\ UNCHANGED <<locations_file, frame, measure, gazetteer_builds, service>>

\* src/backend/app.py, lines 249-263: /health answers 503 without a manager
\* and the statistics of the collection otherwise; get_collection_stats
\* raises nothing.
HealthCheck ==
    /\ pc = "idle"
    /\ chroma_manager # "down"
    /\ Answer(IF IsNone(chroma_manager) THEN Unavailable
              ELSE Reply(200, TRUE, "healthy", Cardinality(collection), 0, 0))

\* Lines 265-269: /chat answers 503 without a manager.
ChatRefused ==
    /\ pc = "idle"
    /\ chroma_manager # "down"
    /\ IsNone(chroma_manager)
    /\ Answer(Unavailable)

\* The lists of hits an index over the documents `documents` can hold.
HitsAmong(documents) ==
    { h \in ShortHits : \A i \in DOMAIN h : h[i].content \in documents }

\* Lines 587-612: /search answers 503 without a manager; otherwise it
\* formats what search_similar returns, [] when the query failed, and
\* answers 500 when a result has None for metadata (line 598).
SearchLocations ==
    /\ pc = "idle"
    /\ chroma_manager # "down"
    /\ \E limit \in 1..MaxN, index \in HitsAmong(collection), query_ok \in BOOLEAN :
        \E results \in {IF query_ok THEN PlainResults(QueryIndex(index, limit)) ELSE <<>>} :
            Answer(IF IsNone(chroma_manager) THEN Unavailable
                   ELSE IF HasNoMetadata(results)
                   THEN Reply(500, FALSE, "search_error", 0, 0, 0)
                   ELSE Reply(200, TRUE, "results", Len(results), 0, 0))

\* /chat of a running service, on the documents of its collection.
ServiceChat ==
    /\ ~IsNone(chroma_manager)
    /\ ChatSearchOf(Queries, {NoUserLocation}, HitsAmong(collection))

ServiceNext ==
    \/ Startup
    \/ Shutdown
    \/ InsertDocuments
    \/ HealthCheck
    \/ ChatRefused
    \/ SearchLocations
    \/ ServiceChat
    \/ SearchSimilar
    \/ ChatAnswer
    \/ Respond

SpecService == InitService /\ [][ServiceNext]_vars

\* ------------------------------------------------------------------------
\* Properties
\* ------------------------------------------------------------------------

\* The candidate a result item was made from.
Origin(x) == Candidate(x.content, x.metadata, x.distance)

\* How often the candidate c occurs in the list s.
Occurrences(s, c) == Cardinality({ i \in DOMAIN s : Origin(s[i]) = c })

\* The candidates the last collection.query of the call delivered: those of
\* line 234, or those of search_similar.
DeliveredPool ==
    IF Len(requested) = 1 THEN initial_results
    ELSE IF requested[Len(requested)].ok
         THEN SubSeq(hits, 1, Min(requested[Len(requested)].n_results, Len(hits)))
         ELSE <<>>

\* The call returned the list it re-ranked (line 290).
Reranked == pc = "done" /\ Len(requested) = 1

HasScore(x) == "location_score" \in DOMAIN x

\* x is better than y under the key (-location_score, distance).
Better(x, y) ==
    \/ x.location_score > y.location_score
    \/ (x.location_score = y.location_score /\ x.distance < y.distance)

\* The scored candidates that the cut of line 290 left out.
LeftOut == { formatted_results[i] : i \in (Len(result) + 1)..Len(formatted_results) }

\* C1: a call returns at most n_results items, and every item is a candidate
\* that the nearest-neighbour query delivered, with its content, metadata and
\* semantic distance, no candidate more often than the query delivered it.
C1_AtMostNResultsFromThePool ==
    pc = "done" =>
        /\ Len(result) <= n_results
        /\ \A i \in DOMAIN result :
            /\ Occurrences(DeliveredPool, Origin(result[i])) >= 1
            /\ Occurrences(result, Origin(result[i]))
                  <= Occurrences(DeliveredPool, Origin(result[i]))

\* C1: three candidates were delivered, two were asked for, and the two
\* returned are not the first two delivered.
C1_Witness ==
    /\ Reranked
    /\ Len(initial_results) = 3
    /\ n_results = 2
    /\ Len(result) = 2
    /\ Origin(result[1]) = initial_results[3]

\* C2: the re-ranked result is in ascending order of (-location_score,
\* distance): of two returned items the one with the higher location score
\* comes first, and of two with the same location score the one with the
\* lower semantic distance; no candidate left out by the cut is better under
\* the key than a returned one.
C2_OrderedByLocationScoreThenDistance ==
    Reranked =>
        /\ \A i \in DOMAIN result : HasScore(result[i])
        /\ \A i, j \in DOMAIN result : i < j => ~Better(result[j], result[i])
        /\ \A x \in LeftOut : \A i \in DOMAIN result : ~Better(x, result[i])
        /\ Len(result) + Cardinality(LeftOut) = Len(initial_results)

\* C2: a returned item with the higher location score stands before one with
\* the lower semantic distance, two returned items tie in location score,
\* and a candidate was left out.
C2_Witness ==
    /\ Reranked
    /\ Len(result) = 2
    /\ LeftOut # {}
    /\ \/ /\ result[1].location_score > result[2].location_score
          /\ result[1].distance > result[2].distance
       \/ /\ result[1].location_score = result[2].location_score
          /\ result[1].distance < result[2].distance
          /\ result[1].location_score > 0

\* C3: when the collection delivered candidates and there is no reference
\* location, every candidate has location score 0 and the result is the
\* candidates in ascending semantic distance, cut to n_results.
C3_NoReferenceSortsByDistance ==
    (pc = "done" /\ requested[1].ok /\ query_location = NoLocation) =>
        /\ Len(requested) = 1
        /\ \A i \in DOMAIN formatted_results :
            HasScore(formatted_results[i]) /\ formatted_results[i].location_score = 0
        /\ Len(result) = Min(n_results, Len(initial_results))
        /\ \A i \in DOMAIN result : Origin(result[i]) = initial_results[i]
        /\ \A i, j \in DOMAIN result : i < j => result[i].distance <= result[j].distance
        /\ \A i \in DOMAIN result : \A j \in (Len(result) + 1)..Len(initial_results) :
            result[i].distance <= initial_results[j].distance

\* C3: the dataset file is missing, the query names Fukui, a candidate of
\* Fukui is the farthest of three, and two are returned.
C3_Witness ==
    /\ pc = "done"
    /\ requested[1].ok
    /\ query_location = NoLocation
    /\ locations_file.kind = "missing"
    /\ IsSubstring(Fukui, query)
    /\ Len(initial_results) = 3
    /\ initial_results[3].metadata.kind = "dict"
    /\ initial_results[3].metadata.city = Fukui
    /\ initial_results[2].distance < initial_results[3].distance
    /\ Len(result) = 2

\* The call returned, and the collection answered every query of the call.
Answered == pc = "done" /\ \A i \in DOMAIN requested : requested[i].ok

\* The candidate is of the city of the reference.
SameCity(candidate) ==
    /\ query_location.kind = "place"
    /\ candidate.metadata.kind = "dict"
    /\ candidate.metadata.city = query_location.city

\* The position of the candidate c in the list the call ranked, with the
\* score `score`.
RankedWithScore(c, i, score) ==
    /\ Origin(formatted_results[i]) = c
    /\ HasScore(formatted_results[i])
    /\ formatted_results[i].location_score = score

\* C4: when the collection answers and a reference place was resolved, every
\* delivered candidate whose city is the name of that place is ranked with
\* location score same_city_weight, before every candidate with a lower
\* location score.
C4_SameCityCandidateGetsTheBonus ==
    (Answered /\ query_location.kind = "place") =>
        \A c \in DOMAIN initial_results :
            SameCity(initial_results[c]) =>
                \E i \in DOMAIN formatted_results :
                    /\ RankedWithScore(initial_results[c], i, same_city_weight)
                    /\ \A j \in DOMAIN formatted_results :
                        (/\ HasScore(formatted_results[j])
                         /\ formatted_results[j].location_score < same_city_weight) => i < j

\* A value that spells a number.
Numeric(v) == v.kind = "num" \/ (v.kind = "str" /\ v.numeric)

\* The candidate carries a latitude and a longitude that spell numbers.
HasCoordinate(candidate) ==
    /\ candidate.metadata.kind = "dict"
    /\ Numeric(candidate.metadata.latitude)
    /\ Numeric(candidate.metadata.longitude)

\* The candidate lacks a latitude or a longitude.
LacksCoordinate(candidate) ==
    \/ candidate.metadata.kind = "none"
    \/ candidate.metadata.latitude.kind = "absent"
    \/ candidate.metadata.longitude.kind = "absent"

\* The great-circle distance from the reference to a candidate with a
\* coordinate.
DistanceToReference(candidate) ==
    Distance(query_location.lat, query_location.lng,
             candidate.metadata.latitude.v, candidate.metadata.longitude.v)

\* The score C5 states: the linear decay within the threshold (1 at the
\* reference itself), 0 beyond it and without a coordinate.
DecayScore(candidate) ==
    IF HasCoordinate(candidate) /\ DistanceToReference(candidate) <= distance_threshold_km
    THEN IF DistanceToReference(candidate) = 0 THEN Unit
         ELSE Max(0, ((distance_threshold_km - DistanceToReference(candidate)) * Unit)
                        \div distance_threshold_km)
    ELSE 0

\* C5: when the collection answers and a reference place was resolved, every
\* delivered candidate of another city that has a coordinate, or lacks one,
\* is ranked with the score max(0, (threshold - d) / threshold) when its
\* distance d to the reference is within the threshold, and with 0 when d is
\* beyond it or the coordinate is missing.
C5_ProximityScoreDecaysLinearly ==
    (Answered /\ query_location.kind = "place") =>
        \A c \in DOMAIN initial_results :
            (/\ ~SameCity(initial_results[c])
             /\ HasCoordinate(initial_results[c]) \/ LacksCoordinate(initial_results[c])) =>
                \E i \in DOMAIN formatted_results :
                    RankedWithScore(initial_results[c], i, DecayScore(initial_results[c]))

\* C6 as stated: in the re-ranked list a candidate with location score 0
\* stands behind a candidate with a positive location score only when its
\* semantic distance is equal or worse, and a candidate with location score 0
\* is left out only when every returned item is semantically at least as near.
C6_ProximityOnlyBreaksTies ==
    Reranked =>
        /\ \A i, j \in DOMAIN formatted_results :
            (/\ i < j
             /\ formatted_results[i].location_score > 0
             /\ formatted_results[j].location_score = 0) =>
                formatted_results[j].distance >= formatted_results[i].distance
        /\ \A x \in LeftOut :
            x.location_score = 0 => \A i \in DOMAIN result : result[i].distance <= x.distance

\* C6: the location score is the primary key of the re-ranked list: a
\* candidate with location score 0 stands behind every candidate with a
\* positive location score, whatever the semantic distances, and behind the
\* candidates with location score 0 that are semantically nearer; no candidate
\* is removed from the list, and one is left out of the result only when
\* n_results candidates stand before it.
C6_LocationScoreIsThePrimaryKey ==
    Reranked =>
        /\ Len(formatted_results) = Len(initial_results)
        /\ \A i, j \in DOMAIN formatted_results :
            (/\ formatted_results[i].location_score > 0
             /\ formatted_results[j].location_score = 0) => i < j
        /\ \A i, j \in DOMAIN formatted_results :
            (/\ formatted_results[i].location_score = 0
             /\ formatted_results[j].location_score = 0
             /\ formatted_results[i].distance < formatted_results[j].distance) => i < j
        /\ \A i \in DOMAIN result : result[i] = formatted_results[i]
        /\ LeftOut # {} => Len(result) = n_results

\* C6: one result was asked for, and a candidate with location score 0 that
\* is semantically nearer than the returned one is left out.
C6_Witness ==
    /\ Reranked
    /\ n_results = 1
    /\ Len(result) = 1
    /\ result[1].location_score > 0
    /\ \E x \in LeftOut : x.location_score = 0 /\ x.distance < result[1].distance

\* C7: when the collection delivered the candidates, the call returns the
\* re-ranked list whatever happens while one candidate is scored: every
\* candidate is in the list with a location score, and a candidate without
\* metadata has 0.
C7_ScoringFailureNeverAbortsTheBatch ==
    (pc # "idle" /\ requested[1].ok) =>
        /\ pc = "done"
        /\ Len(requested) = 1
        /\ Len(formatted_results) = Len(initial_results)
        /\ \A i \in DOMAIN formatted_results :
            /\ HasScore(formatted_results[i])
            /\ formatted_results[i].metadata.kind = "none" =>
                  formatted_results[i].location_score = 0

\* The /chat request carries a user coordinate.
UserCoordinateSupplied ==
    /\ Supplied(user_location)
    /\ Truthy(user_location.latitude)
    /\ Truthy(user_location.longitude)

\* C8: once a search of /chat has its candidates, its reference location is
\* the user's coordinate when the request carries one, and otherwise the
\* place resolved from the query text, or none when no place resolves.
C8_UserCoordinateIsTheReference ==
    (pc # "idle" /\ requested[1].ok) =>
        IF UserCoordinateSupplied
        THEN /\ query_location.kind # "none"
             /\ query_location.lat = user_location.latitude.v
             /\ query_location.lng = user_location.longitude.v
        ELSE query_location = extract_location_from_query(locations_file, query)

PlainFields == {"content", "metadata", "distance"}

\* C11 as stated: every item a call returns carries a location_score, on
\* every path.
C11_EveryItemCarriesALocationScore ==
    pc = "done" => \A i \in DOMAIN result : HasScore(result[i])

\* C11: every item of a re-ranked list carries content, metadata, distance and
\* location_score; every item returned after a failure, by search_similar,
\* carries content, metadata and distance and no location_score.
C11_OnlyRerankedItemsCarryALocationScore ==
    pc = "done" =>
        \A i \in DOMAIN result :
            IF Len(requested) = 1
            THEN DOMAIN result[i] = PlainFields \cup {"location_score"}
            ELSE DOMAIN result[i] = PlainFields

\* C11: the first query failed, the second answered, and an item is returned.
C11_Witness ==
    /\ pc = "done"
    /\ Len(requested) = 2
    /\ ~requested[1].ok
    /\ requested[2].ok
    /\ Len(result) >= 1
    /\ ~HasScore(result[1])

\* ------------------------------------------------------------------------
\* The gazetteer, stated over the records of the dataset
\* ------------------------------------------------------------------------

\* The record's geocoded coordinate spells two numbers.
GeocodedUsable(record) ==
    /\ record.geometry.kind = "location"
    /\ record.geometry.has_keys
    /\ Numeric(record.geometry.lat)
    /\ Numeric(record.geometry.lng)

\* The record's raw coordinate spells two numbers.
RawUsable(record) == Numeric(record.latitude) /\ Numeric(record.longitude)

\* The record names a place and carries a coordinate for it.
Usable(record) == record.city # <<>> /\ (GeocodedUsable(record) \/ RawUsable(record))

\* The coordinate a usable record gives its place: the geocoded one first.
CoordinateOf(record) ==
    IF GeocodedUsable(record)
    THEN <<record.geometry.lat.v, record.geometry.lng.v>>
    ELSE <<record.latitude.v, record.longitude.v>>

\* The first usable record of each place, in dataset order.
FirstAppearances(records) ==
    { i \in DOMAIN records :
        /\ Usable(records[i])
        /\ \A j \in 1..(i - 1) : ~(Usable(records[j]) /\ records[j].city = records[i].city) }

\* A geometry without lat and lng is read for a place the gazetteer lacks so
\* far: building the gazetteer stops there and no gazetteer comes of it.
BuildStops(records) ==
    \E i \in DOMAIN records :
        /\ records[i].city # <<>>
        /\ records[i].geometry.kind = "location"
        /\ ~records[i].geometry.has_keys
        /\ \A j \in 1..(i - 1) : ~(Usable(records[j]) /\ records[j].city = records[i].city)

\* The first appearances whose name the query holds.
Held(records, q) == { i \in FirstAppearances(records) : IsSubstring(records[i].city, q) }

\* The place of the earliest first appearance the query holds.
EarliestHeld(records, q) ==
    IF Held(records, q) = {} THEN NoLocation
    ELSE LET i == CHOOSE i \in Held(records, q) : \A j \in Held(records, q) : i <= j
         IN  Place(records[i].city, CoordinateOf(records[i])[1], CoordinateOf(records[i])[2])

Resolved == pc = "resolved" /\ locations_file.kind = "list"

\* C12: extract_location_from_query returns the gazetteer name built earliest
\* (the order in which places first appear in the dataset with a usable
\* coordinate) among those that are substrings of the query, with that name's
\* coordinate, and None when the query holds none of them or no gazetteer was
\* built; a longer name built later does not win.
C12_EarliestBuiltNameInTheQueryWins ==
    Resolved =>
        query_location = IF BuildStops(locations_file.records) THEN NoLocation
                         ELSE EarliestHeld(locations_file.records, query)

\* The query holds Fukui-shi and the bare name Fukui; the bare name was built
\* first and is returned.
C12_Witness ==
    /\ Resolved
    /\ Len(locations_file.records) >= 2
    /\ locations_file.records[1].city = FukuiBare
    /\ locations_file.records[2].city = Fukui
    /\ Usable(locations_file.records[2])
    /\ IsSubstring(Fukui, query)
    /\ query_location.kind = "place"
    /\ query_location.city = FukuiBare

\* C13: no exception leaves extract_location_from_query; with the dataset file
\* missing, unreadable or malformed it returns None, and a search whose query
\* the collection answers then returns the candidates without a reference,
\* n_results of them or all there are, from its first query.
C13_ExtractionNeverRaises ==
    /\ requested = <<>> => pc # "raised"
    /\ (pc = "resolved" /\ locations_file.kind # "list") => query_location = NoLocation
    /\ (pc \in {"done", "except"} /\ requested[1].ok /\ locations_file.kind # "list") =>
            /\ pc = "done"
            /\ Len(requested) = 1
            /\ query_location = NoLocation
            /\ Len(result) = Min(n_results, Len(initial_results))
            /\ (n_results > 0 /\ hits # <<>>) => result # <<>>

\* The dataset file cannot be read, the query names Fukui, and two results
\* are returned.
C13_Witness ==
    /\ pc = "done"
    /\ locations_file.kind = "unreadable"
    /\ IsSubstring(Fukui, query)
    /\ requested = <<Request(CandidateCount(n_results), TRUE)>>
    /\ query_location = NoLocation
    /\ Len(result) = 2

\* C14: the coordinate the gazetteer holds for a name is that of the first
\* record that gave the name a usable coordinate; records of the same name
\* that come later in the dataset leave the entry as it is.
C14_FirstCoordinateOfANameIsKept ==
    (Resolved /\ query_location.kind = "place") =>
        \A i \in FirstAppearances(locations_file.records) :
            locations_file.records[i].city = query_location.city =>
                <<query_location.lat, query_location.lng>> = CoordinateOf(locations_file.records[i])

\* Two usable records of Fukui-shi with different coordinates follow each
\* other, and the query resolves to the coordinate of the first.
C14_Witness ==
    /\ Resolved
    /\ Len(locations_file.records) >= 2
    /\ locations_file.records[1].city = Fukui
    /\ locations_file.records[2].city = Fukui
    /\ Usable(locations_file.records[1])
    /\ Usable(locations_file.records[2])
    /\ CoordinateOf(locations_file.records[1]) # CoordinateOf(locations_file.records[2])
    /\ query_location.kind = "place"
    /\ query_location.city = Fukui
    /\ <<query_location.lat, query_location.lng>> = CoordinateOf(locations_file.records[1])

\* The geometry of the record has a location without lat and lng.
LacksLatLng(record) == record.geometry.kind = "location" /\ ~record.geometry.has_keys

\* C15: a record whose coordinate is absent or invalid gives the gazetteer no
\* entry, and the names of the records that do have a coordinate still
\* resolve: a place is returned only for a name some record gives a
\* coordinate, and a query that holds the name of a record with a usable
\* coordinate and a well-formed geometry resolves to a place.
C15_UnusableRecordsLeaveTheOthersAvailable ==
    Resolved =>
        /\ query_location.kind = "place" =>
                \E i \in DOMAIN locations_file.records :
                    /\ Usable(locations_file.records[i])
                    /\ locations_file.records[i].city = query_location.city
        /\ \A i \in DOMAIN locations_file.records :
                ( /\ Usable(locations_file.records[i])
                  /\ ~LacksLatLng(locations_file.records[i])
                  /\ IsSubstring(locations_file.records[i].city, query) )
                => query_location.kind = "place"

\* C16 as stated: every location_score of a returned result lies between 0
\* and same_city_weight.
C16_LocationScoreWithinTheBonus ==
    pc = "done" =>
        \A i \in DOMAIN result :
            HasScore(result[i]) =>
                0 <= result[i].location_score /\ result[i].location_score <= same_city_weight

\* C16: the location_score of a returned result is same_city_weight when the
\* candidate is of the city of the reference, and otherwise lies between 0
\* and 1, whatever same_city_weight and distance_threshold_km are.
C16_LocationScoreIsTheBonusOrAShare ==
    pc = "done" =>
        \A i \in DOMAIN result :
            HasScore(result[i]) =>
                IF SameCity(Origin(result[i]))
                THEN result[i].location_score = same_city_weight
                ELSE 0 <= result[i].location_score /\ result[i].location_score <= Unit

\* With a same_city_weight of 0.5, a returned candidate of another city that
\* lies at the reference has a location_score above same_city_weight.
C16_Witness ==
    /\ Reranked
    /\ same_city_weight < Unit
    /\ \E i \in DOMAIN result :
        /\ ~SameCity(Origin(result[i]))
        /\ result[i].location_score > same_city_weight
        /\ result[i].location_score <= Unit

\* The two points of the calculate_distance call.
PointA == <<distance_call[1], distance_call[2]>>

PointB == <<distance_call[3], distance_call[4]>>

\* C17: calculate_distance returns the same distance for a pair of points in
\* either order, and 0 for a point and itself.
C17_DistanceIsSymmetricAndZeroOnItself ==
    /\ Len(distances) = 2 => distances[1] = distances[2]
    /\ (Len(distances) >= 1 /\ PointA = PointB) => distances[1] = 0

\* Both orders of Fukui and Tokyo were computed, and the distance is not 0.
C17_Witness ==
    /\ Len(distances) = 2
    /\ PointA = <<FukuiLat, FukuiLng>>
    /\ PointB = Tokyo
    /\ distances[1] > 0
    /\ distances[2] > 0

\* The call is calculate_distance of Fukui and Ono, in this order.
FukuiToOno ==
    /\ Len(distances) >= 1
    /\ PointA = <<FukuiLat, FukuiLng>>
    /\ PointB = <<OnoLat, OnoLng>>

\* C18 as stated: the distance from Fukui to Ono is between 23 and 24 km.
C18_FukuiToOnoIsAbout23To24Km ==
    FukuiToOno => 23 * Unit <= distances[1] /\ distances[1] <= 24 * Unit

\* C18: the Haversine distance from Fukui (36.0642, 136.2206) to Ono
\* (35.9789, 136.4858) on a sphere of radius 6371 km is about 25.7 km: it
\* lies between 25.5 and 25.9 km.
C18_FukuiToOnoIsAbout26Km ==
    FukuiToOno => 255 * (Unit \div 10) <= distances[1] /\ distances[1] <= 259 * (Unit \div 10)

C18_Witness == FukuiToOno /\ distances[1] > 24 * Unit

\* C19: a call returns exactly min(n_results, number of candidates the
\* collection delivered) items: none from an empty pool, and every candidate
\* of the pool, as often as it was delivered, when n_results is at least the
\* size of the pool.
C19_ReturnsMinOfNResultsAndPool ==
    pc = "done" =>
        /\ Len(result) = Min(n_results, Len(DeliveredPool))
        /\ DeliveredPool = <<>> => result = <<>>
        /\ n_results >= Len(DeliveredPool) =>
                \A k \in DOMAIN DeliveredPool :
                    Occurrences(result, DeliveredPool[k])
                        = Occurrences(DeliveredPool, DeliveredPool[k])

\* Two candidates were delivered, two asked for, and both are returned, the
\* second of the pool first.
C19_Witness ==
    /\ Reranked
    /\ n_results = 2
    /\ Len(initial_results) = 2
    /\ Len(result) = 2
    /\ Origin(result[1]) = initial_results[2]
    /\ Origin(result[2]) = initial_results[1]

\* The place of a ranked item in the candidate pool of line 234 (the
\* documents of a pool are distinct).
PoolIndex(x) == CHOOSE k \in DOMAIN initial_results : initial_results[k] = Origin(x)

\* C20: the ranked list is in one strict order that the inputs fix: by
\* location_score, highest first, then by semantic distance, lowest first,
\* and candidates equal in both stay in the order the pool had them; the
\* result is the head of that list.  No two runs on the same pool, reference
\* and parameters can differ.
C20_RankingIsStableAndDetermined ==
    Reranked =>
        /\ result = SubSeq(formatted_results, 1, Len(result))
        /\ \A i, j \in DOMAIN formatted_results :
            i < j =>
                \/ formatted_results[i].location_score > formatted_results[j].location_score
                \/ /\ formatted_results[i].location_score = formatted_results[j].location_score
                   /\ formatted_results[i].distance < formatted_results[j].distance
                \/ /\ formatted_results[i].location_score = formatted_results[j].location_score
                   /\ formatted_results[i].distance = formatted_results[j].distance
                   /\ PoolIndex(formatted_results[i]) < PoolIndex(formatted_results[j])

\* Two returned candidates have the same location_score and the same
\* semantic distance, and a third candidate of the pool is ranked before them.
C20_Witness ==
    /\ Reranked
    /\ Len(formatted_results) = 3
    /\ Len(result) >= 2
    /\ formatted_results[2].location_score = formatted_results[3].location_score
    /\ formatted_results[2].distance = formatted_results[3].distance
    /\ PoolIndex(formatted_results[1]) = 3
    /\ PoolIndex(formatted_results[2]) = 1
    /\ PoolIndex(formatted_results[3]) = 2

\* C21: the entry of a place is the geocoded coordinate of the record that
\* built it when that record has a usable one, also when the record has a raw
\* coordinate as well; it is the raw coordinate only when the record has no
\* usable geocoded one.
C21_GeocodedCoordinateIsPreferred ==
    (Resolved /\ query_location.kind = "place") =>
        \A i \in FirstAppearances(locations_file.records) :
            locations_file.records[i].city = query_location.city =>
                IF GeocodedUsable(locations_file.records[i])
                THEN /\ query_location.lat = locations_file.records[i].geometry.lat.v
                     /\ query_location.lng = locations_file.records[i].geometry.lng.v
                ELSE /\ RawUsable(locations_file.records[i])
                     /\ query_location.lat = locations_file.records[i].latitude.v
                     /\ query_location.lng = locations_file.records[i].longitude.v

\* The first record is of Fukui-shi, with a geocoded coordinate and another
\* raw one, and the query resolves to the geocoded coordinate.
C21_Witness ==
    /\ Resolved
    /\ Len(locations_file.records) >= 1
    /\ locations_file.records[1].city = Fukui
    /\ GeocodedUsable(locations_file.records[1])
    /\ RawUsable(locations_file.records[1])
    /\ locations_file.records[1].geometry.lat.v # locations_file.records[1].latitude.v
    /\ query_location.kind = "place"
    /\ query_location.city = Fukui
    /\ query_location.lat = locations_file.records[1].geometry.lat.v

Alone(f) ==
    LET out == LocationSearch(locations_file, f.query, f.n_results, DefaultSameCityWeight,
                              20 * Unit, f.hits, f.requested[1].ok)
    IN  IF out.exc = "none" THEN out.result
        ELSE IF f.requested[Len(f.requested)].ok
             THEN PlainResults(QueryIndex(f.hits, f.n_results))
             ELSE <<>>

\* C23: under every interleaving of two calls on one manager, a call that
\* is over returns what it returns when run alone with the same dataset and
\* the same answers of the collection, and no call ends with an exception.
C23_ConcurrentCallsReturnWhatTheyReturnAlone ==
    \A t \in Threads :
        /\ calls[t].pc # "raised"
        /\ calls[t].pc = "done" => calls[t].result = Alone(calls[t])

\* Call 1 returned A for a query that names Fukui, after call 2, which asks
\* for temples on another pool, had queried the index and before it ranked.
C23_Witness ==
    /\ calls[1].pc = "done"
    /\ calls[2].pc = "resolved"
    /\ calls[1].query # calls[2].query
    /\ calls[1].hits # calls[2].hits
    /\ calls[1].query_location.kind = "place"
    /\ calls[2].query_location = NoLocation
    /\ Len(calls[1].result) = 1
    /\ calls[1].result[1].content = "A"
    /\ HasScore(calls[1].result[1])
    /\ calls[1].result[1].location_score = DefaultSameCityWeight

\* C24 as stated: a call issues the nearest-neighbour query once at most.
C24_QueryIssuedAtMostOnce == Len(requested) <= 1

\* C24: a call issues the nearest-neighbour query twice at most: once for
\* min(3 * n_results, 20) candidates, and once more, for n_results hits, in
\* search_similar when the first query or a later step raised; the second
\* query ends the call, whether it is answered or not.
C24_QueryIssuedAtMostTwice ==
    /\ Len(requested) <= 2
    /\ requested # <<>> => requested[1].n_results = CandidateCount(n_results)
    /\ Len(requested) = 2 =>
            /\ requested[2].n_results = n_results
            /\ pc = "done"
            /\ \A i \in DOMAIN result : ~HasScore(result[i])
    /\ (pc = "except" \/ Len(requested) = 2) =>
            \/ ~requested[1].ok
            \/ query_location.kind = "place"

\* The first query was answered, scoring raised, and the query was issued a
\* second time and answered.
C24_Witness ==
    /\ pc = "done"
    /\ Len(requested) = 2
    /\ requested[1].ok
    /\ requested[2].ok
    /\ Len(result) >= 1

\* C25: with a same_city_weight above 1, no returned candidate of another
\* city, or of none, comes before a returned candidate of the city of the
\* reference, and none is returned while a delivered candidate of that city
\* is left out.
C25_SameCityRanksBeforeEveryOtherCity ==
    (Answered /\ same_city_weight > Unit /\ query_location.kind = "place") =>
        /\ \A i, j \in DOMAIN result :
            (SameCity(Origin(result[j])) /\ ~SameCity(Origin(result[i]))) => j < i
        /\ \A k \in DOMAIN initial_results :
            (SameCity(initial_results[k]) /\ Occurrences(result, initial_results[k]) = 0) =>
                \A i \in DOMAIN result : SameCity(Origin(result[i]))

\* C26: a place that extract_location_from_query returns has a name that is
\* not empty and is a substring of the query, and its coordinate is the one
\* the gazetteer holds for that name, built from a record of that name; with
\* no list of records to read, no place is returned.
C26_ResolvedPlaceHasANameOfTheQuery ==
    pc = "resolved" =>
        IF query_location.kind = "place"
        THEN /\ locations_file.kind = "list"
             /\ query_location.city # <<>>
             /\ IsSubstring(query_location.city, query)
             /\ \E i \in FirstAppearances(locations_file.records) :
                    /\ locations_file.records[i].city = query_location.city
                    /\ CoordinateOf(locations_file.records[i])
                            = <<query_location.lat, query_location.lng>>
        ELSE query_location = NoLocation

\* The dataset starts with a record that has a coordinate and no city, the
\* query names Ono, and the place returned is Ono.
C26_Witness ==
    /\ Resolved
    /\ Len(locations_file.records) >= 2
    /\ locations_file.records[1].city = <<>>
    /\ GeocodedUsable(locations_file.records[1])
    /\ query_location.kind = "place"
    /\ query_location.city = Ono

\* C27: whenever a manager is in service, every document that
\* insert_documents has stored, before or after any re-initialisation on the
\* same db_path, is in the collection the manager has open.
C27_InsertedDocumentsSurviveReinitialisation ==
    chroma_manager = "ready" => inserted \subseteq collection

\* C28: after a startup that found the collection empty and both markdown
\* files present, the collection holds the documents parsed from them.
C28_StartupLoadsTheParsedDocuments ==
    (chroma_manager = "ready" /\ pc = "idle" /\ startup.failure = "none"
        /\ startup.was_empty /\ startup.files_exist) =>
            ParsedDocuments \subseteq collection

\* C29: a startup whose import or manager construction failed leaves
\* chroma_manager None, and while it is None no step makes a manager or
\* touches db_path, and every response of /health, /chat and /search has
\* status 503; only the end of the process ends that.
C29_WithoutManagerEveryRequestGets503 ==
    [][/\ (chroma_manager = "down" /\ chroma_manager' # "down"
            /\ startup'.failure # "none") => chroma_manager' = "none"
       /\ chroma_manager = "none" =>
            /\ chroma_manager' \in {"none", "down"}
            /\ database' = database
            /\ collection' = collection
            /\ startup' = startup
            /\ pc' \in {"idle", "answered"}
            /\ pc' = "answered" => reply' = Unavailable]_vars

\* The constructor failed on its client after a database was at db_path,
\* and a request has been answered 503.
C29_Witness ==
    /\ chroma_manager = "none"
    /\ startup.failure = "client"
    /\ inserted # {}
    /\ pc = "answered"
    /\ reply.status = 503

\* C30: the response of /chat comes from ask_gpt, and from a chat
\* completion, only when the search returned at least one document; when
\* it returned none the response is success with the fixed text, no
\* sources, and no call of ask_gpt.
C30_LanguageModelOnlyAfterDocuments ==
    pc = "answered" =>
        /\ result = <<>> => reply = Reply(200, TRUE, "not_found", 0, 0, 0)
        /\ reply.ask_gpt > 0 => Len(result) >= 1
        /\ reply.completions > 0 => Len(result) >= 1

\* The index held documents for the query, both queries of the search
\* failed, and /chat answered with the fixed text.
C30_Witness ==
    /\ pc = "answered"
    /\ hits # <<>>
    /\ Len(requested) = 2
    /\ result = <<>>
    /\ reply.answer = "not_found"
    /\ reply.ask_gpt = 0

====
